---- MODULE Spec2Model ----
(***************************************************************************)
(* Model of cmd/link/internal/ld/macho_update_uuid.go:                     *)
(*   uuidFromGoBuildId  - derives the 16-byte LC_UUID payload              *)
(*   machoRewriteUuid   - copies the executable and patches LC_UUID        *)
(* Files are sequences of bytes (0..255); file offsets are 0-based as in   *)
(* the source, sequence positions are 1-based.                             *)
(***************************************************************************)
EXTENDS Integers, Sequences, FiniteSets, TLC

VARIABLES
    exef,           \* bytes of the source executable (read-only input)
    exem,           \* parsed header: [Magic, ByteOrder, Ncmd]
    recs,           \* the load commands laid out in the image (input layout)
    flagBuildid,    \* *flagBuildid
    hashedBuildID,  \* notsha256.Sum256([]byte(buildID)), 32 bytes
    outexe,         \* bytes of the output file on disk
    outfOpen,       \* TRUE while the handle outf is open
    pc,             \* position inside machoRewriteUuid
    err,            \* value returned by machoRewriteUuid
    i,              \* loop counter of the scan
    reader,         \* loadCmdReader: [offset, next]
    u,              \* var u uuidCmd
    rv,             \* last result of uuidFromGoBuildId
    log,            \* I/O operations issued on outf, in order
    ioFault         \* TRUE once the environment failed an I/O call

vars == <<exef, exem, recs, flagBuildid, hashedBuildID, outexe, outfOpen,
          pc, err, i, reader, u, rv, log, ioFault>>

inputs == <<exef, exem, recs, flagBuildid, hashedBuildID>>

(***************************************************************************)
(* Bounds of the model                                                     *)
(***************************************************************************)
MaxNcmd == 3
TailLen == 4

(***************************************************************************)
(* Sizes and tags                                                          *)
(***************************************************************************)
FileHeaderSize == 28
MagicSize == 4
UuidLen == 16
Sum256Size == 32
LC_UUID == 27
LoadCmdSize == 8
UuidCmdSize == LoadCmdSize + UuidLen

Magic32 == <<254, 237, 250, 206>>
Magic64 == <<254, 237, 250, 207>>
ByteOrders == {"LittleEndian", "BigEndian"}
BuildIds == {"", "abc123"}

Zero16 == [j \in 1..UuidLen |-> 0]
ZeroCmd == [Cmd |-> 0, Len |-> 0]
ZeroUuidCmd == [Cmd |-> 0, Len |-> 0, Uuid |-> Zero16]

(***************************************************************************)
(* Byte-order aware encoding of a uint32                                   *)
(***************************************************************************)
Reverse4(bs) == <<bs[4], bs[3], bs[2], bs[1]>>

U32Bytes(order, v) ==
    LET le == <<v % 256, (v \div 256) % 256, (v \div 65536) % 256,
                (v \div 16777216) % 256>>
    IN  IF order = "LittleEndian" THEN le ELSE Reverse4(le)

U32Of(order, bs) ==
    LET le == IF order = "LittleEndian" THEN bs ELSE Reverse4(bs)
    IN  le[1] + 256 * le[2] + 65536 * le[3] + 16777216 * le[4]

Max(a, b) == IF a >= b THEN a ELSE b

\* A write of bs at offset off of a file: bytes past the end extend the file.
WriteFile(f, off, bs) ==
    [j \in 1..Max(Len(f), off + Len(bs)) |->
        IF j > off /\ j <= off + Len(bs) THEN bs[j - off]
        ELSE IF j <= Len(f) THEN f[j] ELSE 0]

(***************************************************************************)
(* loadCmdReader: r is [offset, next]; fail is an I/O failure of the       *)
(* underlying seek/read/write; at is the file offset the call addresses.   *)
(***************************************************************************)
ReaderNext(f, r, order, fail) ==
    LET off == r.next
        hdr == SubSeq(f, off + 1, off + LoadCmdSize)
        cmd == [Cmd |-> U32Of(order, SubSeq(hdr, 1, 4)),
                Len |-> U32Of(order, SubSeq(hdr, 5, 8))]
    IN  IF fail
        THEN [err |-> "IOError", cmd |-> ZeroCmd, r |-> r, at |-> off]
        ELSE IF off + LoadCmdSize <= Len(f)
        THEN [err |-> "nil", cmd |-> cmd,
              r |-> [offset |-> off, next |-> off + cmd.Len], at |-> off]
        ELSE [err |-> "TruncatedRecord", cmd |-> ZeroCmd, r |-> r, at |-> off]

ReaderReadAt(f, r, order, rel, fail) ==
    LET off == r.offset + rel
        bs  == SubSeq(f, off + 1, off + UuidCmdSize)
    IN  IF fail
        THEN [err |-> "IOError", u |-> ZeroUuidCmd, at |-> off]
        ELSE IF off + UuidCmdSize <= Len(f)
        THEN [err |-> "nil",
              u |-> [Cmd  |-> U32Of(order, SubSeq(bs, 1, 4)),
                     Len  |-> U32Of(order, SubSeq(bs, 5, 8)),
                     Uuid |-> SubSeq(bs, LoadCmdSize + 1, UuidCmdSize)],
              at |-> off]
        ELSE [err |-> "TruncatedRecord", u |-> ZeroUuidCmd, at |-> off]

ReaderWriteAt(f, r, order, rel, val, fail) ==
    LET off == r.offset + rel
        bs  == U32Bytes(order, val.Cmd) \o U32Bytes(order, val.Len) \o val.Uuid
    IN  IF fail
        THEN [err |-> "IOError", f |-> f, at |-> off]
        ELSE IF off + UuidCmdSize <= Len(f)
        THEN [err |-> "nil", f |-> WriteFile(f, off, bs), at |-> off]
        ELSE [err |-> "OutOfBounds", f |-> f, at |-> off]

(***************************************************************************)
(* uuidFromGoBuildId.  x & 0x0f | 0x30 is (x % 16) + 48 and                *)
(* x & 0x3f | 0xc0 is (x % 64) + 192 on a byte.  rv[6] and rv[8] of the    *)
(* source are positions 7 and 9 here.                                      *)
(***************************************************************************)
uuidFromGoBuildIdNoEmpty(buildID) ==
    LET h == SubSeq(hashedBuildID, 1, UuidLen)
    IN  [h EXCEPT ![7] = (@ % 16) + 48, ![9] = (@ % 64) + 192]

uuidFromGoBuildId(buildID) ==
    IF buildID = ""
    THEN Zero16
    ELSE LET h == SubSeq(hashedBuildID, 1, UuidLen)
         IN  [h EXCEPT ![7] = (@ % 16) + 48, ![9] = (@ % 64) + 192]

(***************************************************************************)
(* Pieces of machoRewriteUuid                                              *)
(***************************************************************************)
DeferredCloseLeak(open) == open

DeferredClose(open) == FALSE

IoCopyShort(src) == SubSeq(src, 1, Len(src) - 1)

IoCopy(src) == src

cmdOffset32(m) == FileHeaderSize

cmdOffset(m) ==
    IF m.Magic = Magic64 THEN FileHeaderSize + MagicSize ELSE FileHeaderSize

LoopCondOffByOne(k, ncmd) == k <= ncmd

LoopCond(k, ncmd) == k < ncmd

NextFailedIgnored(e) == FALSE

NextFailed(e) == e # "nil"

IsUuidCmdAny(cmd) == cmd.Cmd # 0

IsUuidCmd(cmd) == cmd.Cmd = LC_UUID

CopyUuidNone(val, id) == val

CopyUuid(val, id) == [val EXCEPT !.Uuid = [j \in 1..UuidLen |-> id[j]]]

BreakAfterPatchMissing == FALSE

BreakAfterPatch == TRUE

Entry(op, off, ok, tag) == [op |-> op, off |-> off, ok |-> ok, tag |-> tag]

Return(e) ==
    /\ pc' = "Done"
    /\ err' = e
    /\ outfOpen' = DeferredClose(outfOpen)

(***************************************************************************)
(* Input images                                                            *)
(***************************************************************************)
RecKinds ==
    { [cmd |-> LC_UUID, len |-> UuidCmdSize, fill |-> 16],
      [cmd |-> 1, len |-> 16, fill |-> 32],
      [cmd |-> 2, len |-> 8, fill |-> 0] }

RecLists == UNION { [1..n -> RecKinds] : n \in 0..MaxNcmd }

RECURSIVE SumLen(_, _)
SumLen(rs, k) == IF k = 0 THEN 0 ELSE rs[k].len + SumLen(rs, k - 1)

RecBytes(order, rec) ==
    U32Bytes(order, rec.cmd) \o U32Bytes(order, rec.len)
        \o [j \in 1..(rec.len - LoadCmdSize) |-> rec.fill + j]

RECURSIVE StreamBytes(_, _, _)
StreamBytes(order, rs, k) ==
    IF k = 0 THEN <<>>
    ELSE StreamBytes(order, rs, k - 1) \o RecBytes(order, rs[k])

MachHeader(magic, order, rs) ==
    (IF order = "BigEndian" THEN magic ELSE Reverse4(magic))
        \o U32Bytes(order, 7) \o U32Bytes(order, 3) \o U32Bytes(order, 2)
        \o U32Bytes(order, Len(rs)) \o U32Bytes(order, SumLen(rs, Len(rs)))
        \o U32Bytes(order, 0)
        \o (IF magic = Magic64 THEN U32Bytes(order, 0) ELSE <<>>)

Trailer == [j \in 1..TailLen |-> 96 + j]

Image(magic, order, rs) ==
    MachHeader(magic, order, rs) \o StreamBytes(order, rs, Len(rs)) \o Trailer

\* exem was parsed from exef, so the file holds at least the header; it may
\* end anywhere after it (a truncated image) or hold the whole image
FileLens(hdr, full) == hdr..full

DigestMain == [j \in 1..Sum256Size |-> 64 + j]

DigestsAll ==
    { [j \in 1..Sum256Size |-> IF j = 7 THEN a ELSE IF j = 9 THEN b ELSE 64 + j] :
        a \in 0..255, b \in 0..255 }

(***************************************************************************)
(* Initial states                                                          *)
(***************************************************************************)
Init ==
    /\ \E magic \in {Magic32, Magic64}, order \in ByteOrders, rs \in RecLists :
         /\ exem = [Magic |-> magic, ByteOrder |-> order, Ncmd |-> Len(rs)]
         /\ recs = rs
         /\ \E n \in FileLens(Len(MachHeader(magic, order, rs)),
                                Len(Image(magic, order, rs))) :
              exef = SubSeq(Image(magic, order, rs), 1, n)
    /\ flagBuildid \in BuildIds
    /\ hashedBuildID = DigestMain
    /\ outexe = <<127>>
    /\ outfOpen = FALSE
    /\ pc = "OpenFile"
    /\ err = "nil"
    /\ i = 0
    /\ reader = [offset |-> 0, next |-> 0]
    /\ u = ZeroUuidCmd
    /\ rv = Zero16
    /\ log = <<>>
    /\ ioFault = FALSE

(***************************************************************************)
(* machoRewriteUuid, one action per step                                   *)
(***************************************************************************)
OpenFile ==
    /\ pc = "OpenFile"
    /\ \E fail \in BOOLEAN :
         /\ log' = Append(log, Entry("OpenFile", 0, ~fail, 0))
         /\ ioFault' = (ioFault \/ fail)
         /\ IF fail
            THEN /\ pc' = "Done"
                 /\ err' = "IOError"
                 /\ UNCHANGED <<outexe, outfOpen>>
            ELSE /\ outexe' = <<>>
                 /\ outfOpen' = TRUE
                 /\ pc' = "Copying"
                 /\ UNCHANGED err
    /\ UNCHANGED <<inputs, i, reader, u, rv>>

Copying ==
    /\ pc = "Copying"
    /\ \E fail \in BOOLEAN :
         /\ log' = Append(log, Entry("Copy", 0, ~fail, 0))
         /\ ioFault' = (ioFault \/ fail)
         /\ IF fail
            THEN /\ outexe' = SubSeq(exef, 1, Len(exef) \div 2)
                 /\ Return("IOError")
            ELSE /\ outexe' = IoCopy(exef)
                 /\ pc' = "LocatingCommandStream"
                 /\ UNCHANGED <<err, outfOpen>>
    /\ UNCHANGED <<inputs, i, reader, u, rv>>

LocatingCommandStream ==
    /\ pc = "LocatingCommandStream"
    /\ \E fail \in BOOLEAN :
         /\ log' = Append(log, Entry("Seek", cmdOffset(exem), ~fail, 0))
         /\ ioFault' = (ioFault \/ fail)
         /\ IF fail
            THEN /\ Return("IOError")
                 /\ UNCHANGED <<reader, i>>
            ELSE /\ reader' = [offset |-> 0, next |-> cmdOffset(exem)]
                 /\ i' = 0
                 /\ pc' = "ScanningRecords"
                 /\ UNCHANGED <<err, outfOpen>>
    /\ UNCHANGED <<inputs, outexe, u, rv>>

ScanningRecords ==
    /\ pc = "ScanningRecords"
    /\ LoopCond(i, exem.Ncmd)
    /\ \E fail \in BOOLEAN :
         LET r == ReaderNext(outexe, reader, exem.ByteOrder, fail)
         IN  /\ log' = Append(log, Entry("Next", r.at, r.err = "nil", r.cmd.Cmd))
             /\ ioFault' = (ioFault \/ fail)
             /\ reader' = r.r
             /\ IF NextFailed(r.err)
                THEN /\ Return(r.err)
                     /\ UNCHANGED i
                ELSE IF IsUuidCmd(r.cmd)
                THEN /\ pc' = "Found"
                     /\ UNCHANGED <<i, err, outfOpen>>
                ELSE /\ i' = i + 1
                     /\ UNCHANGED <<pc, err, outfOpen>>
    /\ UNCHANGED <<inputs, outexe, u, rv>>

Exhausted ==
    /\ pc = "ScanningRecords"
    /\ ~LoopCond(i, exem.Ncmd)
    /\ Return("nil")
    /\ UNCHANGED <<inputs, outexe, i, reader, u, rv, log, ioFault>>

Found ==
    /\ pc = "Found"
    /\ \E fail \in BOOLEAN :
         LET r == ReaderReadAt(outexe, reader, exem.ByteOrder, 0, fail)
         IN  /\ log' = Append(log, Entry("ReadAt", r.at, r.err = "nil", 0))
             /\ ioFault' = (ioFault \/ fail)
             /\ IF r.err # "nil"
                THEN /\ Return(r.err)
                     /\ UNCHANGED u
                ELSE /\ u' = r.u
                     /\ pc' = "Patching"
                     /\ UNCHANGED <<err, outfOpen>>
    /\ UNCHANGED <<inputs, outexe, i, reader, rv>>

Patching ==
    /\ pc = "Patching"
    /\ \E fail \in BOOLEAN :
         LET id == uuidFromGoBuildId(flagBuildid)
             nu == CopyUuid(u, id)
             w  == ReaderWriteAt(outexe, reader, exem.ByteOrder, 0, nu, fail)
         IN  /\ rv' = id
             /\ u' = nu
             /\ outexe' = w.f
             /\ log' = Append(log, Entry("WriteAt", w.at, w.err = "nil", 0))
             /\ ioFault' = (ioFault \/ fail)
             /\ IF w.err # "nil"
                THEN /\ Return(w.err)
                     /\ UNCHANGED i
                ELSE IF BreakAfterPatch
                THEN /\ Return("nil")
                     /\ UNCHANGED i
                ELSE /\ i' = i + 1
                     /\ pc' = "ScanningRecords"
                     /\ UNCHANGED <<err, outfOpen>>
    /\ UNCHANGED <<inputs, reader>>

Next ==
    \/ OpenFile
    \/ Copying
    \/ LocatingCommandStream
    \/ ScanningRecords
    \/ Exhausted
    \/ Found
    \/ Patching

Spec == Init /\ [][Next]_vars

(***************************************************************************)
(* uuidFromGoBuildId on its own: every value of digest bytes 6 and 8       *)
(***************************************************************************)
InitUuid ==
    /\ exem = [Magic |-> Magic64, ByteOrder |-> "LittleEndian", Ncmd |-> 0]
    /\ recs = <<>>
    /\ exef = Image(Magic64, "LittleEndian", <<>>)
    /\ flagBuildid \in BuildIds
    /\ hashedBuildID \in DigestsAll
    /\ outexe = <<>>
    /\ outfOpen = FALSE
    /\ pc = "Derive"
    /\ err = "nil"
    /\ i = 0
    /\ reader = [offset |-> 0, next |-> 0]
    /\ u = ZeroUuidCmd
    /\ rv = Zero16
    /\ log = <<>>
    /\ ioFault = FALSE

Derive ==
    /\ pc = "Derive"
    /\ rv' = uuidFromGoBuildId(flagBuildid)
    /\ pc' = "Derived"
    /\ UNCHANGED <<inputs, outexe, outfOpen, err, i, reader, u, log, ioFault>>

NextUuid == Derive

SpecUuid == InitUuid /\ [][NextUuid]_vars

(***************************************************************************)
(* Layout of the input image, used to state the properties                 *)
(***************************************************************************)
HdrLen == Len(MachHeader(exem.Magic, exem.ByteOrder, recs))

\* file offset of the k-th load command of the image (k = 1 is the first)
RecStart(k) == HdrLen + SumLen(recs, k - 1)

StreamEnd == RecStart(Len(recs) + 1)

UuidIdx == { k \in 1..Len(recs) : recs[k].cmd = LC_UUID }

HasUuid == UuidIdx # {}

FirstUuid == CHOOSE k \in UuidIdx : \A m \in UuidIdx : k <= m

\* position j (1-based) lies in the 16-byte payload of the k-th command
InPayload(k, j) ==
    j > RecStart(k) + LoadCmdSize /\ j <= RecStart(k) + UuidCmdSize

Payload(f, k) ==
    SubSeq(f, RecStart(k) + LoadCmdSize + 1, RecStart(k) + UuidCmdSize)

LogOps(op) == { n \in 1..Len(log) : log[n].op = op }

Succeeded == pc = "Done" /\ err = "nil"

CopyCompleted == \E n \in LogOps("Copy") : log[n].ok

Patched == \E n \in LogOps("WriteAt") : log[n].ok

\* every command header of the image lies inside the file
HeadersPresent ==
    \A k \in 1..Len(recs) : RecStart(k) + LoadCmdSize <= Len(exef)

\* last command the scan visits: the first LC_UUID, or the last command
ScanLast == IF HasUuid THEN FirstUuid ELSE Len(recs)

\* the file ends inside a header the scan reads, or inside the first
\* LC_UUID command
VisitedTruncated ==
    \/ \E k \in 1..ScanLast : RecStart(k) + LoadCmdSize > Len(exef)
    \/ HasUuid /\ RecStart(FirstUuid) + UuidCmdSize > Len(exef)

(***************************************************************************)
(* C1: when the image has an LC_UUID command and machoRewriteUuid returns  *)
(* nil, the output has the length of the source and differs from it only   *)
(* inside the 16 payload bytes of the first LC_UUID command (its Cmd and   *)
(* Cmdsize bytes included among the unchanged ones), and those 16 bytes    *)
(* are uuidFromGoBuildId(buildID).                                         *)
(***************************************************************************)
C1_RoundTrip ==
    (Succeeded /\ HasUuid) =>
        /\ Len(outexe) = Len(exef)
        /\ \A j \in 1..Len(exef) :
              ~InPayload(FirstUuid, j) => outexe[j] = exef[j]
        /\ Payload(outexe, FirstUuid) = uuidFromGoBuildId(flagBuildid)

C1_Witness ==
    /\ Succeeded
    /\ HasUuid
    /\ FirstUuid > 1
    /\ exem.ByteOrder = "BigEndian"
    /\ flagBuildid # ""
    /\ Payload(outexe, FirstUuid) # Payload(exef, FirstUuid)

(***************************************************************************)
(* C2: an image with Ncmd = 0, or whose commands hold no LC_UUID, is never *)
(* written after the copy; when its command headers are all in the file    *)
(* and no I/O call fails, machoRewriteUuid returns nil and the output is   *)
(* byte-identical to the source.                                           *)
(***************************************************************************)
C2_NoUuidIdentity ==
    ~HasUuid =>
        /\ LogOps("WriteAt") = {}
        /\ (pc = "Done" /\ HeadersPresent /\ ~ioFault) =>
              (err = "nil" /\ outexe = exef)

C2_Witness ==
    /\ Succeeded
    /\ ~HasUuid
    /\ Len(recs) >= 2
    /\ Cardinality(LogOps("Next")) = Len(recs)
    /\ outexe = exef

(***************************************************************************)
(* C3 as stated: every image shorter than its declared command stream      *)
(* makes machoRewriteUuid return an error and issue no write.              *)
(***************************************************************************)
C3_TruncatedAlwaysFails ==
    (pc = "Done" /\ Len(exef) < StreamEnd) =>
        (err # "nil" /\ LogOps("WriteAt") = {})

(***************************************************************************)
(* C3 amended: when the file ends inside the 8-byte header of a command    *)
(* the scan visits (any command up to and including the first LC_UUID, or  *)
(* all Ncmd commands when there is none), or inside the 24 bytes of the    *)
(* first LC_UUID command, machoRewriteUuid returns an error and issues no  *)
(* write after the copy.                                                   *)
(***************************************************************************)
C3_VisitedTruncatedFails ==
    (pc = "Done" /\ VisitedTruncated) =>
        (err # "nil" /\ LogOps("WriteAt") = {})

C3_Witness ==
    /\ pc = "Done"
    /\ HasUuid
    /\ RecStart(FirstUuid) + LoadCmdSize <= Len(exef)
    /\ RecStart(FirstUuid) + UuidCmdSize > Len(exef)
    /\ ~ioFault
    /\ err = "TruncatedRecord"
    /\ LogOps("ReadAt") # {}
    /\ outexe = exef

(***************************************************************************)
(* C4 as stated: for a non-empty build id, the result of uuidFromGoBuildId *)
(* has the high nibble of byte 6 equal to 0x3 and the top two bits of byte *)
(* 8 equal to 0b10, every other bit being that of the digest prefix.       *)
(***************************************************************************)
C4_VersionVariantBits ==
    (pc = "Derived" /\ flagBuildid # "") =>
        /\ rv[7] \div 16 = 3
        /\ rv[9] \div 64 = 2
        /\ rv[7] % 16 = hashedBuildID[7] % 16
        /\ rv[9] % 64 = hashedBuildID[9] % 64
        /\ \A j \in 1..UuidLen : j \notin {7, 9} => rv[j] = hashedBuildID[j]

(***************************************************************************)
(* C5: uuidFromGoBuildId("") is sixteen zero bytes, without the version    *)
(* and variant bits, and a rewrite with an empty build id that succeeds    *)
(* leaves sixteen zero bytes in the payload of the LC_UUID command.        *)
(***************************************************************************)
C5_EmptyBuildId ==
    /\ uuidFromGoBuildId("") = Zero16
    /\ (flagBuildid = "" /\ LogOps("WriteAt") # {}) => rv = Zero16
    /\ (Succeeded /\ HasUuid /\ flagBuildid = "") =>
          Payload(outexe, FirstUuid) = Zero16

C5_Witness ==
    /\ Succeeded
    /\ HasUuid
    /\ flagBuildid = ""
    /\ Payload(exef, FirstUuid) # Zero16
    /\ Payload(outexe, FirstUuid) = Zero16

(***************************************************************************)
(* C6: once the copy has completed, the output file has the length of the  *)
(* source in every later state, at return included, also when the patched  *)
(* command ends at the end of the file.                                    *)
(***************************************************************************)
C6_LengthStable == CopyCompleted => Len(outexe) = Len(exef)

C6_Witness ==
    /\ Succeeded
    /\ Patched
    /\ HasUuid
    /\ RecStart(FirstUuid) + UuidCmdSize = Len(exef)
    /\ Len(outexe) = Len(exef)

(***************************************************************************)
(* C7: the output handle is open only between a successful open and the    *)
(* return; in no terminal state is it still open.                          *)
(***************************************************************************)
C7_HandleClosed ==
    /\ pc = "Done" => ~outfOpen
    /\ outfOpen => (log # <<>> /\ log[1].ok)

C7_Witness ==
    /\ pc = "Done"
    /\ ~outfOpen
    /\ Len(log) >= 5
    /\ log[1].ok
    /\ err # "nil"

(***************************************************************************)
(* C8: first match wins: at most one write-back is issued, it addresses    *)
(* the LC_UUID command of lowest index, no Next is called after it, and    *)
(* the payload of every later LC_UUID command stays as in the source.      *)
(***************************************************************************)
C8_FirstMatchWins ==
    /\ Cardinality(LogOps("WriteAt")) <= 1
    /\ \A n \in LogOps("WriteAt") :
          /\ HasUuid
          /\ log[n].off = RecStart(FirstUuid)
          /\ \A m \in LogOps("Next") : m < n
    /\ \A k \in UuidIdx :
          (CopyCompleted /\ k # FirstUuid
                /\ RecStart(k) + UuidCmdSize <= Len(exef)) =>
              Payload(outexe, k) = Payload(exef, k)

C8_Witness ==
    /\ Succeeded
    /\ Patched
    /\ Cardinality(UuidIdx) >= 2
    /\ StreamEnd <= Len(exef)
    /\ Payload(outexe, FirstUuid) # Payload(exef, FirstUuid)

(***************************************************************************)
(* C9: the seek and the first Next address offset H = 28, plus 4 for the   *)
(* 64-bit magic; the k-th Next addresses H plus the sum of the Cmdsize of  *)
(* the k-1 commands before it; ReadAt(0) and WriteAt(0) address the offset *)
(* of the Next that precedes them.                                         *)
(***************************************************************************)
C9_RecordWalk ==
    LET H == 28 + (IF exem.Magic = Magic64 THEN 4 ELSE 0)
        nth(n) == Cardinality({ m \in LogOps("Next") : m <= n })
    IN  \A n \in 1..Len(log) :
          /\ log[n].op = "Seek" => log[n].off = H
          /\ log[n].op = "Next" =>
                log[n].off = H + SumLen(recs, nth(n) - 1)
          /\ log[n].op \in {"ReadAt", "WriteAt"} =>
                /\ nth(n) >= 1
                /\ log[n].off = H + SumLen(recs, nth(n) - 1)
                /\ \E m \in LogOps("Next") :
                      m < n /\ nth(m) = nth(n) /\ log[m].off = log[n].off

C9_Witness ==
    /\ exem.Magic = Magic64
    /\ Cardinality(LogOps("Next")) = 3
    /\ recs[1].len # recs[2].len
    /\ Patched

(***************************************************************************)
(* C10: the I/O of a call is open, copy, seek, then at most Ncmd Next      *)
(* calls, then at most one ReadAt followed by at most one WriteAt; ReadAt  *)
(* follows a successful Next that returned LC_UUID and WriteAt follows a   *)
(* successful ReadAt; only the last operation may have failed, a failure   *)
(* ends the call with an error, and nothing runs after the return.         *)
(***************************************************************************)
C10_Order ==
    /\ \A n \in 1..Len(log) :
          /\ (n = 1) <=> (log[n].op = "OpenFile")
          /\ (n = 2) <=> (log[n].op = "Copy")
          /\ (n = 3) <=> (log[n].op = "Seek")
          /\ n >= 4 => log[n].op \in {"Next", "ReadAt", "WriteAt"}
          /\ n < Len(log) => log[n].ok
          /\ (log[n].op = "Next" /\ n > 4) =>
                (log[n - 1].op = "Next" /\ log[n - 1].tag # LC_UUID)
          /\ log[n].op = "ReadAt" =>
                (log[n - 1].op = "Next" /\ log[n - 1].tag = LC_UUID)
          /\ log[n].op = "WriteAt" => log[n - 1].op = "ReadAt"
    /\ Cardinality(LogOps("Next")) <= exem.Ncmd
    /\ Cardinality(LogOps("ReadAt")) <= 1
    /\ Cardinality(LogOps("WriteAt")) <= 1
    /\ (log # <<>> /\ ~log[Len(log)].ok) => (pc = "Done" /\ err # "nil")
    /\ pc = "Done" => (err # "nil" => ~log[Len(log)].ok)
    /\ pc = "Done" => ~ENABLED Next
    /\ pc = "OpenFile" => log = <<>>
    /\ pc = "Copying" => Len(log) = 1
    /\ pc = "LocatingCommandStream" => Len(log) = 2
    /\ pc = "ScanningRecords" => log[Len(log)].op \in {"Seek", "Next"}
    /\ pc = "Found" => log[Len(log)].op = "Next"
    /\ pc = "Patching" => log[Len(log)].op = "ReadAt"

C10_Witness ==
    /\ Succeeded
    /\ Cardinality(LogOps("Next")) >= 2
    /\ Cardinality(LogOps("Next")) < exem.Ncmd
    /\ log[Len(log)].op = "WriteAt"
    /\ log[Len(log)].ok

====
